---- MODULE Spec2Model ----
(***************************************************************************)
(* Model of the Google AI key provider (GoogleAIKeyProvider), the key pool *)
(* router and the related request-path helpers of the proxy.               *)
(*                                                                         *)
(* Time is Date.now() in milliseconds.  The clock starts at StartTime (a   *)
(* wall-clock reading is far larger than RATE_LIMIT_LOCKOUT, so a fresh    *)
(* key with rateLimitedAt = 0 is not inside a lockout) and advances in     *)
(* steps of KEY_REUSE_DELAY, which divides RATE_LIMIT_LOCKOUT, so both     *)
(* sides of every window comparison in the code are reached.  Several      *)
(* operations may run within the same millisecond.                         *)
(***************************************************************************)
EXTENDS Integers, Sequences, FiniteSets, TLC

VARIABLES keys, now, last, calls, disabledByCall

\* The key pool: its providers and the record of the most recent call to it.
VARIABLES keyProviders, poolLast

\* The state of the key provider.
providerVars == <<keys, now, last, calls, disabledByCall>>

\* The state of the key pool.
poolVars == <<keyProviders, poolLast>>

\* The models listing of the Anthropic router: the module's cache, the clock
\* it reads, whether config.anthropicKey is set, and the record of the most
\* recent request.
VARIABLES modelsCache, modelsCacheTime, clock, anthropicKey, listingLast

\* The state of the models listing.
listingVars == <<modelsCache, modelsCacheTime, clock, anthropicKey, listingLast>>

\* The stream of server-sent events handed to the transformer: the events
\* received so far, the chunks emitted, whether the stream is still being
\* read, and the record of the most recent transformation.
VARIABLES received, emitted, streamAlive, streamLast

\* The state of the event stream.
streamVars == <<received, emitted, streamAlive, streamLast>>

\* Everything but the key provider.
otherComponents == <<poolVars, listingVars, streamVars>>

vars == <<providerVars, poolVars, listingVars, streamVars>>

----------------------------------------------------------------------------
(* Program constants *)

RATE_LIMIT_LOCKOUT == 2000
KEY_REUSE_DELAY == 500

----------------------------------------------------------------------------
(* Bounds of the model *)

\* Date.now() at construction.
StartTime == 10000
\* The clock stops advancing after this many milliseconds past StartTime.
MaxElapsed == 2000
\* Number of calls made to the provider in one run.
MaxCalls == 3

----------------------------------------------------------------------------
(* Inputs *)

\* config.googleAIKey after split(",") and trim(): the first secret is
\* configured twice.
KeyConfig == <<"k1", "k2", "k1">>

Families == {"gemini-pro", "gemini-flash", "gemini-ultra"}

\* Model names requests ask for.
Models == {"gemini-pro", "gemini-1.5-flash"}

\* getGoogleAIModelFamily: the family a model name belongs to.
getGoogleAIModelFamily(model) ==
    CASE model = "gemini-1.5-flash" -> "gemini-flash"
      [] model = "gemini-ultra" -> "gemini-ultra"
      [] OTHER -> "gemini-pro"

\* crypto.createHash("sha256").update(key).digest("hex").slice(0, 8)
Digest(key) ==
    CASE key = "k1" -> "0a1b2c3d"
      [] key = "k2" -> "4e5f6a7b"
      [] key = "k3" -> "8c9d0e1f"
      [] OTHER -> "ffffffff"

HashOf(key) == "plm-" \o Digest(key)

\* A hash no key of the provider has.
UnknownHash == "plm-00000000"

----------------------------------------------------------------------------
(* Construction *)

\* The list taken as it is, duplicates included.
DedupeNothing(list, seen) == list

RECURSIVE Dedupe(_, _)
\* [...new Set(list)]: first occurrences, in order.
Dedupe(list, seen) ==
    IF list = <<>> THEN <<>>
    ELSE IF Head(list) \in seen THEN Dedupe(Tail(list), seen)
    ELSE <<Head(list)>> \o Dedupe(Tail(list), seen \cup {Head(list)})

NewKey(key) ==
    [ key |-> key,
      hash |-> HashOf(key),
      modelFamilies |-> {"gemini-pro"},
      isDisabled |-> FALSE,
      isRevoked |-> FALSE,
      promptCount |-> 0,
      lastUsed |-> 0,
      rateLimitedAt |-> 0,
      rateLimitedUntil |-> 0,
      lastChecked |-> 0,
      tokens |-> [f \in Families |-> 0] ]

Constructor(config) ==
    LET bareKeys == Dedupe(config, {})
    IN  [i \in 1..Len(bareKeys) |-> NewKey(bareKeys[i])]

Hashes == {HashOf(KeyConfig[i]) : i \in 1..Len(KeyConfig)}

\* The value of "no key" in the record of the last call.
NoKey == NewKey("")

\* Record of the most recent call: the operation, its arguments, the key list
\* before it, how it ended ("ok", "return" for an early return, or the name
\* of the error thrown), the key it returned, the number it returned and,
\* for update, the patch.  disabledByCall is the set of hashes of the keys
\* that disable has been applied to.
Call(op, hash, model, pre, status, key, val) ==
    [op |-> op, hash |-> hash, model |-> model, pre |-> pre,
     status |-> status, key |-> key, val |-> val, at |-> now, patch |-> <<>>]

\* One more call is made.
Counted == calls < MaxCalls /\ calls' = calls + 1

\* The provider after construction.
InitProvider ==
    /\ keys = Constructor(KeyConfig)
    /\ now = StartTime
    /\ last = Call("constructor", "", "", <<>>, "ok", NoKey, 0)
    /\ calls = 0
    /\ disabledByCall = {}

----------------------------------------------------------------------------
(* Helpers *)

Max(a, b) == IF a >= b THEN a ELSE b

\* this.keys.find((k) => k.hash === hash): index of the first match, 0 if none.
Find(ks, hash) ==
    IF \E i \in 1..Len(ks) : ks[i].hash = hash
    THEN CHOOSE i \in 1..Len(ks) :
            /\ ks[i].hash = hash
            /\ \A j \in 1..(i - 1) : ks[j].hash # hash
    ELSE 0

----------------------------------------------------------------------------
(* Selection *)

\* The filter of get without its test of isDisabled.
AvailableKeysAnyState(ks, neededFamily) ==
    SelectSeq([i \in 1..Len(ks) |-> i],
              LAMBDA i : neededFamily \in ks[i].modelFamilies)

\* The filter of get without its test of the family.
AvailableKeysAnyFamily(ks, neededFamily) ==
    SelectSeq([i \in 1..Len(ks) |-> i], LAMBDA i : ~ks[i].isDisabled)

\* The filter of get: indices of the keys that are not disabled and support
\* the family, in list order.
AvailableKeys(ks, neededFamily) ==
    SelectSeq([i \in 1..Len(ks) |-> i],
              LAMBDA i : ~ks[i].isDisabled /\ neededFamily \in ks[i].modelFamilies)

\* now - k.rateLimitedAt < RATE_LIMIT_LOCKOUT
IsRateLimited(k, t) == t - k.rateLimitedAt < RATE_LIMIT_LOCKOUT

\* The comparator with the two mixed cases exchanged.
CompareLockedFirst(a, b, t) ==
    LET aRateLimited == IsRateLimited(a, t)
        bRateLimited == IsRateLimited(b, t)
    IN  IF aRateLimited /\ ~bRateLimited THEN -1
        ELSE IF ~aRateLimited /\ bRateLimited THEN 1
        ELSE IF aRateLimited /\ bRateLimited
             THEN a.rateLimitedAt - b.rateLimitedAt
        ELSE a.lastUsed - b.lastUsed

\* The comparator ordering free keys by most recent use.
CompareMostRecentFirst(a, b, t) ==
    LET aRateLimited == IsRateLimited(a, t)
        bRateLimited == IsRateLimited(b, t)
    IN  IF aRateLimited /\ ~bRateLimited THEN 1
        ELSE IF ~aRateLimited /\ bRateLimited THEN -1
        ELSE IF aRateLimited /\ bRateLimited
             THEN a.rateLimitedAt - b.rateLimitedAt
        ELSE b.lastUsed - a.lastUsed

\* The comparator ordering locked-out keys by most recent lockout.
CompareNewestLockoutFirst(a, b, t) ==
    LET aRateLimited == IsRateLimited(a, t)
        bRateLimited == IsRateLimited(b, t)
    IN  IF aRateLimited /\ ~bRateLimited THEN 1
        ELSE IF ~aRateLimited /\ bRateLimited THEN -1
        ELSE IF aRateLimited /\ bRateLimited
             THEN b.rateLimitedAt - a.rateLimitedAt
        ELSE a.lastUsed - b.lastUsed

\* The comparator handed to sort.
Compare(a, b, t) ==
    LET aRateLimited == IsRateLimited(a, t)
        bRateLimited == IsRateLimited(b, t)
    IN  IF aRateLimited /\ ~bRateLimited THEN 1
        ELSE IF ~aRateLimited /\ bRateLimited THEN -1
        ELSE IF aRateLimited /\ bRateLimited
             THEN a.rateLimitedAt - b.rateLimitedAt
        ELSE a.lastUsed - b.lastUsed

RECURSIVE InsertSorted(_, _, _, _)
\* Insert index x into the sorted index sequence, after every element that
\* does not compare greater than it.
InsertSorted(ks, sorted, x, t) ==
    IF sorted = <<>> THEN <<x>>
    ELSE IF Compare(ks[x], ks[Head(sorted)], t) < 0 THEN <<x>> \o sorted
    ELSE <<Head(sorted)>> \o InsertSorted(ks, Tail(sorted), x, t)

RECURSIVE SortFrom(_, _, _, _)
SortFrom(ks, sorted, rest, t) ==
    IF rest = <<>> THEN sorted
    ELSE SortFrom(ks, InsertSorted(ks, sorted, Head(rest), t), Tail(rest), t)

\* Array.prototype.sort with the comparator: a stable sort.
Sort(ks, idx, t) == SortFrom(ks, <<>>, idx, t)

\* throttle overwriting the window instead of extending it.
ThrottleNoMax(ks, hash, t) ==
    LET i == Find(ks, hash)
        nextRateLimit == t + KEY_REUSE_DELAY
    IN  [ks EXCEPT ![i].rateLimitedAt = t,
                   ![i].rateLimitedUntil = nextRateLimit]

\* throttle(hash)
Throttle(ks, hash, t) ==
    LET i == Find(ks, hash)
        currentRateLimit == ks[i].rateLimitedUntil
        nextRateLimit == t + KEY_REUSE_DELAY
    IN  [ks EXCEPT ![i].rateLimitedAt = t,
                   ![i].rateLimitedUntil = Max(currentRateLimit, nextRateLimit)]

\* get(model)
Get(model) ==
    /\ Counted
    /\ UNCHANGED otherComponents
    /\ UNCHANGED disabledByCall
    /\ LET neededFamily == getGoogleAIModelFamily(model)
           availableKeys == AvailableKeys(keys, neededFamily)
       IN  IF Len(availableKeys) = 0
           THEN /\ last' = Call("get", "", model, keys, "PaymentRequiredError", NoKey, 0)
                /\ UNCHANGED <<keys, now>>
           ELSE LET keysByPriority == Sort(keys, availableKeys, now)
                    selected == keysByPriority[1]
                    used == [keys EXCEPT ![selected].lastUsed = now]
                    after == Throttle(used, used[selected].hash, now)
                IN  /\ keys' = after
                    /\ last' = Call("get", "", model, keys, "ok", after[selected], 0)
                    /\ UNCHANGED now

----------------------------------------------------------------------------
(* Mutations *)

\* disable(key): the argument is a key object, of which only the hash is read.
Disable(hash) ==
    /\ Counted
    /\ UNCHANGED otherComponents
    /\ disabledByCall' = IF Find(keys, hash) = 0 THEN disabledByCall
                                                 ELSE disabledByCall \cup {hash}
    /\ LET i == Find(keys, hash)
       IN  IF i = 0 \/ keys[i].isDisabled
           THEN /\ last' = Call("disable", hash, "", keys, "return", NoKey, 0)
                /\ UNCHANGED <<keys, now>>
           ELSE /\ keys' = [keys EXCEPT ![i].isDisabled = TRUE]
                /\ last' = Call("disable", hash, "", keys, "ok", NoKey, 0)
                /\ UNCHANGED now

\* Patches of type GoogleAIKeyUpdate: the fields of a key other than key,
\* hash, lastUsed, promptCount, rateLimitedAt and rateLimitedUntil.
Patches ==
    { [isDisabled |-> FALSE],
      [isRevoked |-> TRUE],
      [isDisabled |-> TRUE, isRevoked |-> TRUE],
      [modelFamilies |-> {"gemini-flash"}],
      [lastChecked |-> 0] }

\* Object.assign(target, source)
ObjectAssign(target, source) ==
    [f \in DOMAIN target \cup DOMAIN source |->
        IF f \in DOMAIN source THEN source[f] ELSE target[f]]

\* update stamping lastChecked after the patch is merged.
UpdateStampLast(hash, update) ==
    /\ Counted
    /\ UNCHANGED otherComponents
    /\ UNCHANGED disabledByCall
    /\ LET i == Find(keys, hash)
       IN  IF i = 0
           THEN /\ last' = [Call("update", hash, "", keys, "TypeError", NoKey, 0)
                               EXCEPT !.patch = update]
                /\ UNCHANGED <<keys, now>>
           ELSE /\ keys' = [keys EXCEPT ![i] =
                       ObjectAssign(@, ObjectAssign(update, [lastChecked |-> now]))]
                /\ last' = [Call("update", hash, "", keys, "ok", NoKey, 0)
                               EXCEPT !.patch = update]
                /\ UNCHANGED now

\* update(hash, update)
Update(hash, update) ==
    /\ Counted
    /\ UNCHANGED otherComponents
    /\ UNCHANGED disabledByCall
    /\ LET i == Find(keys, hash)
       IN  IF i = 0
           THEN /\ last' = [Call("update", hash, "", keys, "TypeError", NoKey, 0)
                               EXCEPT !.patch = update]
                /\ UNCHANGED <<keys, now>>
           ELSE /\ keys' = [keys EXCEPT ![i] =
                       ObjectAssign(@, ObjectAssign([lastChecked |-> now], update))]
                /\ last' = [Call("update", hash, "", keys, "ok", NoKey, 0)
                               EXCEPT !.patch = update]
                /\ UNCHANGED now

\* available()
Available(ks) == Len(SelectSeq(ks, LAMBDA k : ~k.isDisabled))

\* incrementUsage(hash, model, tokens)
IncrementUsage(hash, model, tokens) ==
    /\ Counted
    /\ UNCHANGED otherComponents
    /\ UNCHANGED disabledByCall
    /\ LET i == Find(keys, hash)
           family == getGoogleAIModelFamily(model)
       IN  IF i = 0
           THEN /\ last' = Call("incrementUsage", hash, model, keys, "return", NoKey, tokens)
                /\ UNCHANGED <<keys, now>>
           ELSE /\ keys' = [keys EXCEPT ![i].promptCount = @ + 1,
                                        ![i].tokens[family] = @ + tokens]
                /\ last' = Call("incrementUsage", hash, model, keys, "ok", NoKey, tokens)
                /\ UNCHANGED now

RECURSIVE MinOf(_)
\* Math.min(...values) of a non-empty sequence.
MinOf(values) ==
    IF Len(values) = 1 THEN values[1]
    ELSE LET m == MinOf(Tail(values))
         IN  IF Head(values) <= m THEN Head(values) ELSE m

\* getLockoutPeriod waiting for the last key to be ready instead of the
\* first.
LockoutPeriodOfLast(ks, t) ==
    LET activeKeys == SelectSeq(ks, LAMBDA k : ~k.isDisabled)
        rateLimitedKeys == SelectSeq(activeKeys, LAMBDA k : t < k.rateLimitedUntil)
        anyNotRateLimited == Len(rateLimitedKeys) < Len(activeKeys)
    IN  IF Len(activeKeys) = 0 THEN 0
        ELSE IF anyNotRateLimited THEN 0
        ELSE LET waits == {activeKeys[i].rateLimitedUntil - t : i \in 1..Len(activeKeys)}
             IN  CHOOSE w \in waits : \A v \in waits : v <= w

\* getLockoutPeriod(): the provider's method takes no argument and reads
\* every key that is not disabled.
LockoutPeriod(ks, t) ==
    LET activeKeys == SelectSeq(ks, LAMBDA k : ~k.isDisabled)
        rateLimitedKeys == SelectSeq(activeKeys, LAMBDA k : t < k.rateLimitedUntil)
        anyNotRateLimited == Len(rateLimitedKeys) < Len(activeKeys)
    IN  IF Len(activeKeys) = 0 THEN 0
        ELSE IF anyNotRateLimited THEN 0
        ELSE MinOf([i \in 1..Len(activeKeys) |-> activeKeys[i].rateLimitedUntil - t])

\* KeyPool.getLockoutPeriod(model) handing the model to the provider, which
\* ignores it.
GetLockoutPeriod(model) ==
    /\ Counted
    /\ UNCHANGED otherComponents
    /\ UNCHANGED disabledByCall
    /\ last' = Call("getLockoutPeriod", "", model, keys, "ok", NoKey, LockoutPeriod(keys, now))
    /\ UNCHANGED <<keys, now>>

\* markRateLimited storing the length of the lockout instead of its end.
MarkRateLimitedNoClock(keyHash) ==
    /\ Counted
    /\ UNCHANGED otherComponents
    /\ UNCHANGED disabledByCall
    /\ LET i == Find(keys, keyHash)
       IN  IF i = 0
           THEN /\ last' = Call("markRateLimited", keyHash, "", keys, "TypeError", NoKey, 0)
                /\ UNCHANGED <<keys, now>>
           ELSE /\ keys' = [keys EXCEPT ![i].rateLimitedAt = now,
                                        ![i].rateLimitedUntil = RATE_LIMIT_LOCKOUT]
                /\ last' = Call("markRateLimited", keyHash, "", keys, "ok", NoKey, 0)
                /\ UNCHANGED now

\* markRateLimited that also takes the key out of service.
MarkRateLimitedDisables(keyHash) ==
    /\ Counted
    /\ UNCHANGED otherComponents
    /\ UNCHANGED disabledByCall
    /\ LET i == Find(keys, keyHash)
       IN  IF i = 0
           THEN /\ last' = Call("markRateLimited", keyHash, "", keys, "TypeError", NoKey, 0)
                /\ UNCHANGED <<keys, now>>
           ELSE /\ keys' = [keys EXCEPT ![i].rateLimitedAt = now,
                                        ![i].rateLimitedUntil = now + RATE_LIMIT_LOCKOUT,
                                        ![i].isDisabled = TRUE]
                /\ last' = Call("markRateLimited", keyHash, "", keys, "ok", NoKey, 0)
                /\ UNCHANGED now

\* markRateLimited pushing an open window further out.
MarkRateLimitedExtends(keyHash) ==
    /\ Counted
    /\ UNCHANGED otherComponents
    /\ UNCHANGED disabledByCall
    /\ LET i == Find(keys, keyHash)
       IN  IF i = 0
           THEN /\ last' = Call("markRateLimited", keyHash, "", keys, "TypeError", NoKey, 0)
                /\ UNCHANGED <<keys, now>>
           ELSE /\ keys' = [keys EXCEPT ![i].rateLimitedAt = now,
                                        ![i].rateLimitedUntil =
                                            Max(@, now) + RATE_LIMIT_LOCKOUT]
                /\ last' = Call("markRateLimited", keyHash, "", keys, "ok", NoKey, 0)
                /\ UNCHANGED now

\* markRateLimited(keyHash)
MarkRateLimited(keyHash) ==
    /\ Counted
    /\ UNCHANGED otherComponents
    /\ UNCHANGED disabledByCall
    /\ LET i == Find(keys, keyHash)
       IN  IF i = 0
           THEN /\ last' = Call("markRateLimited", keyHash, "", keys, "TypeError", NoKey, 0)
                /\ UNCHANGED <<keys, now>>
           ELSE /\ keys' = [keys EXCEPT ![i].rateLimitedAt = now,
                                        ![i].rateLimitedUntil = now + RATE_LIMIT_LOCKOUT]
                /\ last' = Call("markRateLimited", keyHash, "", keys, "ok", NoKey, 0)
                /\ UNCHANGED now

\* Date.now() moves on.
Tick ==
    /\ now + KEY_REUSE_DELAY <= StartTime + MaxElapsed
    /\ now' = now + KEY_REUSE_DELAY
    /\ UNCHANGED <<keys, last, calls, disabledByCall>>
    /\ UNCHANGED otherComponents

\* Token counts reported to incrementUsage.
TokenCounts == {3}

Next ==
    \/ \E model \in Models : Get(model)
    \/ \E hash \in Hashes \cup {UnknownHash} : Disable(hash)
    \/ \E hash \in Hashes \cup {UnknownHash}, update \in Patches : Update(hash, update)
    \/ \E hash \in Hashes \cup {UnknownHash}, model \in Models, tokens \in TokenCounts :
          IncrementUsage(hash, model, tokens)
    \/ \E model \in Models : GetLockoutPeriod(model)
    \/ \E hash \in Hashes \cup {UnknownHash} : MarkRateLimited(hash)
    \/ Tick

----------------------------------------------------------------------------
(* Key pool.  Model names are sequences of characters.  A provider is known *)
(* to the pool by its service and by the calls delegated to it.             *)

\* Number of calls made to the pool in one run.
MaxPoolCalls == 4

gpt4 == <<"g", "p", "t", "-", "4">>
claude2 == <<"c", "l", "a", "u", "d", "e", "-", "2">>
claudeBare == <<"c", "l", "a", "u", "d", "e">>
geminiPro == <<"g", "e", "m", "i", "n", "i", "-", "p", "r", "o">>
dalle3 == <<"d", "a", "l", "l", "-", "e", "-", "3">>

\* Model names the pool is asked for.
PoolModels == {gpt4, claude2, claudeBare, geminiPro, dalle3}

\* String.prototype.startsWith
StartsWith(s, prefix) ==
    Len(s) >= Len(prefix) /\ SubSeq(s, 1, Len(prefix)) = prefix

\* A provider the pool holds, with the number of get and getLockoutPeriod
\* calls it has received.
NewProvider(service) == [service |-> service, gets |-> 0, lockouts |-> 0]

\* KeyPool.constructor
PoolConstructor == <<NewProvider("openai"), NewProvider("anthropic")>>

\* getService(model): the service, or "Error" when it throws.
getService(model) ==
    IF StartsWith(model, <<"g", "p", "t">>) THEN "openai"
    ELSE IF StartsWith(model, <<"c", "l", "a", "u", "d", "e", "-">>) THEN "anthropic"
    ELSE "Error"

\* getKeyProvider(service): index of the first provider of the service, 0
\* (undefined) if there is none.
getKeyProvider(providers, service) ==
    IF \E i \in 1..Len(providers) : providers[i].service = service
    THEN CHOOSE i \in 1..Len(providers) :
            /\ providers[i].service = service
            /\ \A j \in 1..(i - 1) : providers[j].service # service
    ELSE 0

\* Record of a call to the pool: the providers before it, how it ended
\* ("delegated", or the error thrown) and the service it was routed to.
PoolCall(op, model, status, service) ==
    [op |-> op, model |-> model, pre |-> keyProviders, status |-> status,
     service |-> service]

\* The calls the pool has delegated so far.
Delegated(providers) ==
    LET RECURSIVE Sum(_)
        Sum(ps) == IF ps = <<>> THEN 0
                   ELSE Head(ps).gets + Head(ps).lockouts + Sum(Tail(ps))
    IN  Sum(providers)

\* KeyPool.get(model)
PoolGet(model) ==
    /\ Delegated(keyProviders) < MaxPoolCalls
    /\ LET service == getService(model)
           i == getKeyProvider(keyProviders, service)
       IN  IF service = "Error"
           THEN /\ poolLast' = PoolCall("get", model, "Error", "")
                /\ UNCHANGED keyProviders
           ELSE IF i = 0
           THEN /\ poolLast' = PoolCall("get", model, "TypeError", service)
                /\ UNCHANGED keyProviders
           ELSE /\ keyProviders' = [keyProviders EXCEPT ![i].gets = @ + 1]
                /\ poolLast' = PoolCall("get", model, "delegated", service)
    /\ UNCHANGED <<providerVars, listingVars, streamVars>>

\* KeyPool.getLockoutPeriod(model)
PoolGetLockoutPeriod(model) ==
    /\ Delegated(keyProviders) < MaxPoolCalls
    /\ LET service == getService(model)
           i == getKeyProvider(keyProviders, service)
       IN  IF service = "Error"
           THEN /\ poolLast' = PoolCall("getLockoutPeriod", model, "Error", "")
                /\ UNCHANGED keyProviders
           ELSE IF i = 0
           THEN /\ poolLast' = PoolCall("getLockoutPeriod", model, "TypeError", service)
                /\ UNCHANGED keyProviders
           ELSE /\ keyProviders' = [keyProviders EXCEPT ![i].lockouts = @ + 1]
                /\ poolLast' = PoolCall("getLockoutPeriod", model, "delegated", service)
    /\ UNCHANGED <<providerVars, listingVars, streamVars>>

\* The pool after construction.
InitPool ==
    /\ keyProviders = PoolConstructor
    /\ poolLast = [op |-> "constructor", model |-> <<>>, pre |-> <<>>,
                   status |-> "", service |-> ""]

NextPool ==
    \/ \E model \in PoolModels : PoolGet(model)
    \/ \E model \in PoolModels : PoolGetLockoutPeriod(model)

----------------------------------------------------------------------------
(* Models listing *)

\* 1000 * 60: the age below which the cached listing is served.
MODELS_CACHE_MS == 60000

\* The clock when the module is loaded: a wall-clock reading is more than
\* a minute past the epoch.
ListingStart == 60000
\* The clock advances by a third of the cache age, this many times.
MaxListingTicks == 8

claudeVariants ==
    << "claude-v1", "claude-v1-100k", "claude-instant-v1",
       "claude-instant-v1-100k", "claude-v1.3", "claude-v1.3-100k",
       "claude-v1.2", "claude-v1.0", "claude-instant-v1.1",
       "claude-instant-v1.1-100k", "claude-instant-v1.0", "claude-2",
       "claude-2.0", "claude-2.1", "claude-3-opus-20240229",
       "claude-3-sonnet-20240229" >>

\* null, as a listing.
Null == [object |-> "null", data |-> <<>>]

\* { object: "list", data: [] }
EmptyListing == [object |-> "list", data |-> <<>>]

\* The listing built at time t.
BuildListing(t) ==
    [object |-> "list",
     data |-> [i \in 1..Len(claudeVariants) |->
                 [id |-> claudeVariants[i], object |-> "model", created |-> t,
                  owned_by |-> "anthropic", root |-> "claude"]]]

\* Record of a request for the listing: the time, the cache before it and
\* the response.
ListingCall(resp) ==
    [op |-> "getModelsResponse", at |-> clock, preCache |-> modelsCache,
     preTime |-> modelsCacheTime, resp |-> resp]

\* getModelsResponse serving the cache up to and including the full age.
GetModelsResponseInclusive ==
    /\ IF clock - modelsCacheTime <= MODELS_CACHE_MS
       THEN /\ listingLast' = ListingCall(modelsCache)
            /\ UNCHANGED <<modelsCache, modelsCacheTime>>
       ELSE IF ~anthropicKey
       THEN /\ listingLast' = ListingCall(EmptyListing)
            /\ UNCHANGED <<modelsCache, modelsCacheTime>>
       ELSE /\ modelsCache' = BuildListing(clock)
            /\ modelsCacheTime' = clock
            /\ listingLast' = ListingCall(BuildListing(clock))
    /\ UNCHANGED <<clock, anthropicKey, providerVars, poolVars, streamVars>>

\* handleModelRequest: getModelsResponse()
GetModelsResponse ==
    /\ IF clock - modelsCacheTime < MODELS_CACHE_MS
       THEN /\ listingLast' = ListingCall(modelsCache)
            /\ UNCHANGED <<modelsCache, modelsCacheTime>>
       ELSE IF ~anthropicKey
       THEN /\ listingLast' = ListingCall(EmptyListing)
            /\ UNCHANGED <<modelsCache, modelsCacheTime>>
       ELSE /\ modelsCache' = BuildListing(clock)
            /\ modelsCacheTime' = clock
            /\ listingLast' = ListingCall(BuildListing(clock))
    /\ UNCHANGED <<clock, anthropicKey, providerVars, poolVars, streamVars>>

\* new Date().getTime() moves on.
ListingTick ==
    /\ clock + (MODELS_CACHE_MS \div 3) <=
           ListingStart + MaxListingTicks * (MODELS_CACHE_MS \div 3)
    /\ clock' = clock + (MODELS_CACHE_MS \div 3)
    /\ UNCHANGED <<modelsCache, modelsCacheTime, anthropicKey, listingLast>>
    /\ UNCHANGED <<providerVars, poolVars, streamVars>>

\* The module after loading.
InitListing ==
    /\ modelsCache = Null
    /\ modelsCacheTime = 0
    /\ clock = ListingStart
    /\ listingLast = [op |-> "load", at |-> ListingStart, preCache |-> Null,
                      preTime |-> 0, resp |-> Null]

NextListing ==
    \/ GetModelsResponse
    \/ ListingTick

----------------------------------------------------------------------------
(* Streaming transformer from OpenAI text completions to OpenAI chat.       *)
(* A JSON value is a record tagged with its type; an operator that can      *)
(* throw returns a record telling whether it threw.                         *)

\* Number of events of one stream.
MaxStreamEvents == 2

Undefined == [t |-> "undefined"]
JsonNull == [t |-> "null"]
JsonNumber(n) == [t |-> "number", v |-> n]
JsonString(str) == [t |-> "string", v |-> str]
JsonArray(elements) == [t |-> "array", v |-> elements]
\* An object, given as a function from its property names to their values.
JsonObject(properties) == [t |-> "object", v |-> properties]

\* A choice of a completion event.
Choice(text, finish) ==
    JsonObject([text |-> JsonString(text), index |-> JsonNumber(0),
                logprobs |-> JsonNull, finish_reason |-> finish])

\* A text completion event with the given choices.
Completion(choices) ==
    JsonObject([id |-> JsonString("cmpl-1"), object |-> JsonString("text_completion"),
                created |-> JsonNumber(1700000000), choices |-> choices,
                model |-> JsonString("gpt-3.5-turbo-instruct")])

\* The events a stream can carry: the content of the data field ("" when
\* the event has none) and, for a payload, what JSON.parse makes of it
\* (or that it throws a SyntaxError).
StreamEvents ==
    { [name |-> "comment", data |-> "", threw |-> FALSE, parsed |-> Undefined],
      [name |-> "done", data |-> "[DONE]", threw |-> TRUE, parsed |-> Undefined],
      [name |-> "not json", data |-> "payload", threw |-> TRUE, parsed |-> Undefined],
      [name |-> "null", data |-> "payload", threw |-> FALSE, parsed |-> JsonNull],
      [name |-> "number", data |-> "payload", threw |-> FALSE, parsed |-> JsonNumber(42)],
      [name |-> "no choices", data |-> "payload", threw |-> FALSE,
       parsed |-> JsonObject([error |-> JsonString("overloaded")])],
      [name |-> "choices not array", data |-> "payload", threw |-> FALSE,
       parsed |-> Completion(JsonString("none"))],
      [name |-> "empty choices", data |-> "payload", threw |-> FALSE,
       parsed |-> Completion(JsonArray(<<>>))],
      [name |-> "null choice", data |-> "payload", threw |-> FALSE,
       parsed |-> Completion(JsonArray(<<JsonNull>>))],
      [name |-> "choice without text", data |-> "payload", threw |-> FALSE,
       parsed |-> Completion(JsonArray(<<JsonObject([index |-> JsonNumber(0)])>>))],
      [name |-> "empty text", data |-> "payload", threw |-> FALSE,
       parsed |-> Completion(JsonArray(<<Choice("", JsonString("stop"))>>))],
      [name |-> "text", data |-> "payload", threw |-> FALSE,
       parsed |-> Completion(JsonArray(<<Choice("Hi", JsonNull)>>))],
      [name |-> "last text", data |-> "payload", threw |-> FALSE,
       parsed |->
           JsonObject([id |-> JsonString("cmpl-2"), object |-> JsonString("text_completion"),
                       created |-> JsonNumber(1700000001),
                       choices |->
                           JsonArray(<<JsonObject([text |-> JsonString(" there"),
                                                   index |-> JsonNumber(1),
                                                   logprobs |-> JsonNull,
                                                   finish_reason |-> JsonString("length")]),
                                       Choice("ignored", JsonNull)>>),
                       model |-> JsonString("davinci-002")])] }

\* Reading property p of value x: throws a TypeError on null and undefined,
\* gives undefined when x has no such property.
Prop(x, p) ==
    IF x.t \in {"null", "undefined"} THEN [threw |-> TRUE, v |-> Undefined]
    ELSE IF x.t = "object" /\ p \in DOMAIN x.v THEN [threw |-> FALSE, v |-> x.v[p]]
    ELSE [threw |-> FALSE, v |-> Undefined]

\* array[0]: undefined for an empty array.
First(x) == IF x.v = <<>> THEN Undefined ELSE x.v[1]

\* Truthiness that takes the empty string for true.
TruthyOfAnyString(x) ==
    CASE x.t \in {"null", "undefined"} -> FALSE
      [] x.t = "string" -> TRUE
      [] x.t = "number" -> x.v # 0
      [] OTHER -> TRUE

\* Whether a value counts as true in a condition.
Truthy(x) ==
    CASE x.t \in {"null", "undefined"} -> FALSE
      [] x.t = "string" -> x.v # ""
      [] x.t = "number" -> x.v # 0
      [] OTHER -> TRUE

\* parseEvent(data): the fields of the event, of which the transformer
\* reads data.
parseEvent(event) == [data |-> event.data]

\* JSON.parse of the payload of the event: its value, or a SyntaxError.
JSONParse(event) == [threw |-> event.threw, v |-> event.parsed]

\* The body of the try block of asCompletionEvent: the parsed event, or
\* that an exception was thrown.
TryCompletionEvent(event) ==
    IF JSONParse(event).threw THEN [threw |-> TRUE, v |-> Undefined]
    ELSE LET parsed == JSONParse(event).v
             choices == Prop(parsed, "choices")
         IN  IF choices.threw THEN [threw |-> TRUE, v |-> Undefined]
             ELSE IF choices.v.t # "array" THEN [threw |-> TRUE, v |-> Undefined]
             ELSE LET text == Prop(First(choices.v), "text")
                  IN  IF text.threw THEN [threw |-> TRUE, v |-> Undefined]
                      ELSE IF Truthy(text.v) THEN [threw |-> FALSE, v |-> parsed]
                      ELSE [threw |-> TRUE, v |-> Undefined]

\* asCompletionEvent without its try and catch.
asCompletionEventUncaught(event) == TryCompletionEvent(event)

\* asCompletionEvent(event): what the try block returns, null when it throws.
asCompletionEvent(event) ==
    LET tried == TryCompletionEvent(event)
    IN  IF tried.threw THEN [threw |-> FALSE, v |-> JsonNull] ELSE tried

\* What the transformer returns: position, and event when it emits one.
NoEvent == [threw |-> FALSE, position |-> -1, hasEvent |-> FALSE, event |-> Undefined]
Thrown == [threw |-> TRUE, position |-> 0, hasEvent |-> FALSE, event |-> Undefined]

\* openAITextToOpenAIChat(params), params.data being the event.
openAITextToOpenAIChat(event) ==
    IF parseEvent(event).data = "" \/ parseEvent(event).data = "[DONE]" THEN NoEvent
    ELSE LET completionEvent == asCompletionEvent(event)
         IN  IF completionEvent.threw THEN Thrown
             ELSE IF ~Truthy(completionEvent.v) THEN NoEvent
             ELSE LET choice == First(completionEvent.v.v.choices)
                      newEvent ==
                          [id |-> Prop(completionEvent.v, "id").v,
                           object |-> "chat.completion.chunk",
                           created |-> Prop(completionEvent.v, "created").v,
                           model |-> Prop(completionEvent.v, "model").v,
                           choices |->
                               <<[index |-> Prop(choice, "index").v,
                                  delta |-> [content |-> Prop(choice, "text").v],
                                  finish_reason |-> Prop(choice, "finish_reason").v]>>]
                  IN  [threw |-> FALSE, position |-> -1, hasEvent |-> TRUE,
                       event |-> newEvent]

\* The next event of the stream is transformed; an exception ends the
\* stream.
Transform(event) ==
    /\ streamAlive
    /\ Len(received) < MaxStreamEvents
    /\ LET result == openAITextToOpenAIChat(event)
       IN  /\ received' = Append(received, event.name)
           /\ streamLast' = [op |-> "transform", input |-> event, result |-> result]
           /\ streamAlive' = ~result.threw
           /\ emitted' = IF result.hasEvent THEN Append(emitted, result.event)
                                            ELSE emitted
    /\ UNCHANGED <<providerVars, poolVars, listingVars>>

\* The stream before its first event.
InitStream ==
    /\ received = <<>>
    /\ emitted = <<>>
    /\ streamAlive = TRUE
    /\ streamLast = [op |-> "open", input |-> <<>>, result |-> NoEvent]

NextStream == \E event \in StreamEvents : Transform(event)

----------------------------------------------------------------------------
(* Specifications *)

Init ==
    /\ InitProvider
    /\ InitPool
    /\ InitListing
    /\ anthropicKey = TRUE
    /\ InitStream

\* The same with config.anthropicKey set or not.
InitAnyConfig ==
    /\ InitProvider
    /\ InitPool
    /\ InitListing
    /\ anthropicKey \in BOOLEAN
    /\ InitStream

Spec == Init /\ [][Next]_vars

SpecPool == Init /\ [][NextPool]_vars

SpecListing == InitAnyConfig /\ [][NextListing]_vars

SpecStream == Init /\ [][NextStream]_vars

----------------------------------------------------------------------------
(* Vocabulary of the properties.  In every state, last.pre is the key list  *)
(* before the most recent call, last.at the time of that call, and keys the *)
(* key list after it (the clock is the only thing that moves between two    *)
(* calls).                                                                  *)

\* get returned a key.
GotKey == last.op = "get" /\ last.status = "ok"

\* The family the most recent call asked for.
AskedFamily == getGoogleAIModelFamily(last.model)

\* Indices of the eligible keys of a list: not disabled, supporting the family.
Eligible(ks, family) ==
    {i \in 1..Len(ks) : ~ks[i].isDisabled /\ family \in ks[i].modelFamilies}

\* A key is currently locked out at time t.
LockedOut(k, t) == t - k.rateLimitedAt < 2000

\* Index, in the list before the call, of the key that get returned.
Returned == CHOOSE i \in 1..Len(last.pre) : last.pre[i].hash = last.key.hash

\* The eligible keys before the call that were not locked out, and those
\* that were.
FreeBefore == {i \in Eligible(last.pre, AskedFamily) : ~LockedOut(last.pre[i], last.at)}
LockedBefore == {i \in Eligible(last.pre, AskedFamily) : LockedOut(last.pre[i], last.at)}

\* C1: a key returned by get(model) is not disabled and supports the family
\* of the requested model, both as stored before the call and as handed out.
C1_GetReturnsEligible ==
    GotKey =>
        /\ \E i \in 1..Len(last.pre) : last.pre[i].hash = last.key.hash
        /\ Returned \in Eligible(last.pre, AskedFamily)
        /\ ~last.key.isDisabled
        /\ AskedFamily \in last.key.modelFamilies

\* get returned a key while another key of the provider was not eligible.
C1_Witness ==
    /\ GotKey
    /\ \E j \in 1..Len(last.pre) : j \notin Eligible(last.pre, AskedFamily)

\* C2: when the eligible keys include one that is not locked out and one
\* that is, get returns one that is not locked out.
C2_FreeBeatsLocked ==
    (GotKey /\ FreeBefore # {} /\ LockedBefore # {}) => Returned \in FreeBefore

\* get chose the second key of the list because the first was locked out.
C2_Witness ==
    /\ GotKey
    /\ FreeBefore # {}
    /\ \E j \in LockedBefore : j < Returned

\* C3: when some eligible key is not locked out, get returns the key with
\* the smallest lastUsed among the eligible keys that are not locked out,
\* the first of them in list order on a tie.
C3_LeastRecentlyUsed ==
    (GotKey /\ FreeBefore # {}) =>
        /\ Returned \in FreeBefore
        /\ \A j \in FreeBefore :
              \/ last.pre[Returned].lastUsed < last.pre[j].lastUsed
              \/ last.pre[Returned].lastUsed = last.pre[j].lastUsed /\ Returned <= j

\* get passed over an earlier key of the list that was free but used more
\* recently.
C3_Witness ==
    /\ GotKey
    /\ \E j \in FreeBefore :
          j < Returned /\ last.pre[j].lastUsed > last.pre[Returned].lastUsed

\* C4: when every eligible key is locked out, get still returns a key, the
\* one with the earliest rateLimitedAt among the eligible keys.
C4_OldestLockoutFirst ==
    (last.op = "get" /\ Eligible(last.pre, AskedFamily) # {} /\ FreeBefore = {}) =>
        /\ last.status = "ok"
        /\ Returned \in LockedBefore
        /\ \A j \in LockedBefore :
              last.pre[Returned].rateLimitedAt <= last.pre[j].rateLimitedAt

\* Every eligible key was locked out and get passed over an earlier key of
\* the list whose lockout was more recent.
C4_Witness ==
    /\ GotKey
    /\ FreeBefore = {}
    /\ \E j \in LockedBefore :
          j < Returned /\ last.pre[j].rateLimitedAt > last.pre[Returned].rateLimitedAt

\* C5: with at least two keys eligible for a family, a get for that family
\* that follows a get returning k, less than KEY_REUSE_DELAY later and with
\* no other call in between, returns a key different from k.
C5_NoImmediateReuse ==
    [][ ( /\ GotKey
          /\ calls' # calls
          /\ last'.op = "get"
          /\ last'.status = "ok"
          /\ getGoogleAIModelFamily(last'.model) = AskedFamily
          /\ now < last.at + 500
          /\ Cardinality(Eligible(keys, AskedFamily)) >= 2 )
        => last'.key.hash # last.key.hash ]_vars

\* C6: when an eligible key's rateLimitedUntil window is still open and
\* another eligible key's window has closed, get returns a key whose window
\* has closed.
C6_LockoutFailover ==
    ( /\ GotKey
      /\ \E i \in Eligible(last.pre, AskedFamily) : last.pre[i].rateLimitedUntil > last.at
      /\ \E j \in Eligible(last.pre, AskedFamily) : last.pre[j].rateLimitedUntil <= last.at )
    => last.pre[Returned].rateLimitedUntil <= last.at

\* The smallest rateLimitedUntil - t over a non-empty set of keys of a list.
MinWait(ks, idx, t) ==
    CHOOSE w \in {ks[i].rateLimitedUntil - t : i \in idx} :
        \A i \in idx : w <= ks[i].rateLimitedUntil - t

\* C7: getLockoutPeriod(model) is 0 when some key eligible for the model is
\* usable now, and otherwise the smallest rateLimitedUntil - now over the
\* keys eligible for the model.
C7_LockoutPeriodPerModel ==
    last.op = "getLockoutPeriod" =>
        LET eligible == Eligible(last.pre, AskedFamily)
        IN  /\ (\E i \in eligible : last.at >= last.pre[i].rateLimitedUntil)
                  => last.val = 0
            /\ (eligible # {} /\ \A i \in eligible : last.at < last.pre[i].rateLimitedUntil)
                  => last.val = MinWait(last.pre, eligible, last.at)

\* C8: a successful get changes the returned key's record only, setting its
\* lastUsed to now and its rateLimitedUntil to the later of its previous
\* value and now + KEY_REUSE_DELAY; the other records, the length and the
\* order of the list stay, and the caller receives the updated record.
C8_GetFrame ==
    GotKey =>
        /\ Len(keys) = Len(last.pre)
        /\ \A i \in 1..Len(keys) : keys[i].hash = last.pre[i].hash
        /\ \A i \in 1..Len(keys) : i # Returned => keys[i] = last.pre[i]
        /\ keys[Returned].lastUsed = last.at
        /\ keys[Returned].rateLimitedUntil =
              IF last.pre[Returned].rateLimitedUntil >= last.at + 500
              THEN last.pre[Returned].rateLimitedUntil
              ELSE last.at + 500
        /\ last.key = keys[Returned]

\* get returned the second key of the list while its window reached beyond
\* the reuse delay.
C8_Witness ==
    /\ GotKey
    /\ Returned > 1
    /\ last.pre[Returned].rateLimitedUntil > last.at + 500

C10_RevokedImpliesDisabled ==
    \A i \in 1..Len(keys) : keys[i].isRevoked => keys[i].isDisabled

Marked == last.op = "markRateLimited" /\ last.status = "ok"

\* Index of the key the most recent call named by its hash.
Named == CHOOSE i \in 1..Len(last.pre) : last.pre[i].hash = last.hash

\* C13: markRateLimited(hash) at time now sets the named key's rateLimitedAt
\* to now and its rateLimitedUntil to now + 2000 and changes nothing else:
\* the key's other fields, the other records and available() stay.
C13_MarkFrame ==
    Marked =>
        /\ keys[Named].rateLimitedAt = last.at
        /\ keys[Named].rateLimitedUntil = last.at + 2000
        /\ keys = [last.pre EXCEPT ![Named].rateLimitedAt = last.at,
                                   ![Named].rateLimitedUntil = last.at + 2000]
        /\ Available(keys) = Available(last.pre)

\* markRateLimited was applied to a key that had been used and then disabled.
C13_Witness ==
    /\ Marked
    /\ last.pre[Named].lastUsed > 0
    /\ last.pre[Named].isDisabled

\* C14: get(model) throws PaymentRequiredError exactly when no key is both
\* not disabled and supporting the requested family, and then no key
\* record is modified.
C14_NoKeysAvailable ==
    last.op = "get" =>
        /\ last.status = "PaymentRequiredError" <=> Eligible(last.pre, AskedFamily) = {}
        /\ last.status = "PaymentRequiredError" => keys = last.pre

\* get threw although every key supports the family: all are disabled.
C14_Witness ==
    /\ last.op = "get"
    /\ last.status = "PaymentRequiredError"
    /\ \A i \in 1..Len(last.pre) : AskedFamily \in last.pre[i].modelFamilies

\* update merged a patch into a key.
Updated == last.op = "update" /\ last.status = "ok"

\* C15 as stated: after update(hash, patch) at time now the named key's
\* lastChecked is now, every field the patch names has the patch's value,
\* and the other keys are unchanged.
C15_UpdateStampsNow ==
    Updated =>
        /\ keys[Named].lastChecked = last.at
        /\ \A f \in DOMAIN last.patch : keys[Named][f] = last.patch[f]
        /\ \A i \in 1..Len(keys) : i # Named => keys[i] = last.pre[i]

\* C15 as amended: the named key's lastChecked is now unless the patch
\* names lastChecked, which then has the patch's value like every other
\* field the patch names; the other keys are unchanged.
C15_UpdateMerges ==
    Updated =>
        /\ "lastChecked" \notin DOMAIN last.patch => keys[Named].lastChecked = last.at
        /\ \A f \in DOMAIN last.patch : keys[Named][f] = last.patch[f]
        /\ Len(keys) = Len(last.pre)
        /\ \A i \in 1..Len(keys) : i # Named => keys[i] = last.pre[i]

\* update was given a patch that names lastChecked with a value other than
\* the time of the call, on a key checked before.
C15_Witness ==
    /\ Updated
    /\ "lastChecked" \in DOMAIN last.patch
    /\ last.patch.lastChecked # last.at
    /\ last.pre[Named].lastChecked > 0

\* The step is a call that repeats the call before it: the same operation
\* with the same arguments at the same clock value.
Redelivered ==
    /\ calls' # calls
    /\ last'.op = last.op
    /\ last'.hash = last.hash
    /\ last'.model = last.model
    /\ last'.at = last.at
    /\ last.op = "incrementUsage" => last'.val = last.val

\* A disable of a key that is unknown or already disabled changes nothing.
DisableOfDisabledIsNoOp ==
    ( /\ calls' # calls
      /\ last'.op = "disable"
      /\ \A i \in 1..Len(keys) : keys[i].hash = last'.hash => keys[i].isDisabled )
    => keys' = keys

\* C16 as stated: delivering disable, markRateLimited or incrementUsage a
\* second time in succession leaves the key list as the first delivery left
\* it, and a disable of an already-disabled or unknown key changes nothing.
C16_AllIdempotent ==
    [][ /\ (Redelivered /\ last.op \in {"disable", "markRateLimited", "incrementUsage"})
             => keys' = keys
        /\ DisableOfDisabledIsNoOp ]_vars

\* C16 as amended: the same for disable and markRateLimited only.
C16_SignalsIdempotent ==
    [][ /\ (Redelivered /\ last.op \in {"disable", "markRateLimited"})
             => keys' = keys
        /\ DisableOfDisabledIsNoOp ]_vars

\* markRateLimited was delivered again for a key it had already locked out
\* at this clock value, after the key had been handed out.
C16_Witness ==
    /\ Marked
    /\ last.pre[Named].rateLimitedAt = last.at
    /\ last.pre[Named].rateLimitedUntil = last.at + 2000
    /\ last.pre[Named].lastUsed > 0

\* The secrets of the configured list.
ConfiguredSecrets == {KeyConfig[i] : i \in 1..Len(KeyConfig)}

C12_DisabledForGood ==
    /\ \A h \in disabledByCall : \E i \in 1..Len(keys) : keys[i].hash = h
    /\ GotKey => last.key.hash \notin disabledByCall
    /\ Available(keys) <= Cardinality({i \in 1..Len(keys) : keys[i].hash \notin disabledByCall})

\* The service a model name belongs to by its prefix.
ServiceOfPrefix(model) ==
    IF StartsWith(model, <<"g", "p", "t", "-">>) THEN "openai"
    ELSE IF StartsWith(model, <<"c", "l", "a", "u", "d", "e", "-">>) THEN "anthropic"
    ELSE IF StartsWith(model, <<"g", "e", "m", "i", "n", "i", "-">>) THEN "google-ai"
    ELSE ""

\* C17: KeyPool.get(model) and KeyPool.getLockoutPeriod(model) route a model
\* starting with gpt- to the openai provider, with claude- to the anthropic
\* provider and with gemini- to the google-ai provider: the pool holds
\* exactly one provider of that service, the call is delegated to it and no
\* other provider's state is touched.
C17_RoutedByPrefix ==
    (poolLast.op \in {"get", "getLockoutPeriod"} /\ ServiceOfPrefix(poolLast.model) # "") =>
        LET service == ServiceOfPrefix(poolLast.model)
        IN  /\ poolLast.status = "delegated"
            /\ poolLast.service = service
            /\ Cardinality({i \in 1..Len(keyProviders) : keyProviders[i].service = service}) = 1
            /\ Len(keyProviders) = Len(poolLast.pre)
            /\ \A i \in 1..Len(keyProviders) :
                  IF keyProviders[i].service = service
                  THEN keyProviders[i] # poolLast.pre[i]
                  ELSE keyProviders[i] = poolLast.pre[i]

\* The listing was requested.
Listed == listingLast.op = "getModelsResponse"

\* The listing had been built before the most recent request.
BuiltBefore == listingLast.preCache # Null

\* C19: once a listing has been built at time t, a request at t' with
\* t' - t < 60000 returns that cached listing without rebuilding it, a
\* request at t' - t >= 60000 rebuilds it and restarts the window, and no
\* request returns a null cache.
C19_ListingCachedOneMinute ==
    Listed =>
        /\ (BuiltBefore /\ listingLast.at - listingLast.preTime < 60000) =>
              /\ listingLast.resp = listingLast.preCache
              /\ modelsCache = listingLast.preCache
              /\ modelsCacheTime = listingLast.preTime
        /\ (BuiltBefore /\ listingLast.at - listingLast.preTime >= 60000) =>
              /\ modelsCacheTime = listingLast.at
              /\ listingLast.resp = modelsCache
              /\ \A i \in 1..Len(modelsCache.data) :
                    modelsCache.data[i].created = listingLast.at
              /\ Len(modelsCache.data) = 16
        /\ listingLast.resp # Null
        /\ listingLast.resp.object = "list"

\* A request found the cached listing exactly one minute old and rebuilt it.
C19_Witness ==
    /\ Listed
    /\ BuiltBefore
    /\ listingLast.at - listingLast.preTime = 60000
    /\ modelsCacheTime = listingLast.at

\* A request was served from a cache less than a minute old.
C19_WitnessCached ==
    /\ Listed
    /\ BuiltBefore
    /\ listingLast.at > listingLast.preTime
    /\ listingLast.resp = listingLast.preCache

\* An event was transformed.
Transformed == streamLast.op = "transform"

\* The event is a data event whose payload is JSON with a choices array
\* whose first element carries a non-empty text.
Recognised(event) ==
    /\ event.data = "payload"
    /\ ~event.threw
    /\ event.parsed.t = "object"
    /\ "choices" \in DOMAIN event.parsed.v
    /\ event.parsed.v.choices.t = "array"
    /\ event.parsed.v.choices.v # <<>>
    /\ event.parsed.v.choices.v[1].t = "object"
    /\ "text" \in DOMAIN event.parsed.v.choices.v[1].v
    /\ event.parsed.v.choices.v[1].v.text.t = "string"
    /\ event.parsed.v.choices.v[1].v.text.v # ""

\* C20: for every input the transformer returns position -1 without
\* throwing, emits no event for an input it does not recognise, and the
\* stream goes on.
C20_TransformerTotal ==
    /\ streamAlive
    /\ Transformed =>
          /\ ~streamLast.result.threw
          /\ streamLast.result.position = -1
          /\ ~Recognised(streamLast.input) => ~streamLast.result.hasEvent
    /\ Len(emitted) <= Len(received)

\* An event with an empty choices array was followed on the same stream by
\* an event that was transformed into a chunk.
C20_Witness ==
    /\ Len(received) = 2
    /\ received[1] = "empty choices"
    /\ Transformed
    /\ streamLast.result.hasEvent
    /\ Len(emitted) = 1

\* The keys of a list that are not disabled.
NotDisabled(ks) == {i \in 1..Len(ks) : ~ks[i].isDisabled}

\* getLockoutPeriod was called.
AskedLockout == last.op = "getLockoutPeriod"

\* C21: getLockoutPeriod never returns a negative number; it returns 0 when
\* no key is enabled; it returns T > 0 only when every enabled key has
\* now < rateLimitedUntil, and then, the keys being left as they are, it
\* returns 0 at now + T and a positive number at every time from now up to
\* now + T.
C21_LockoutWaitIsExact ==
    AskedLockout =>
        /\ last.val >= 0
        /\ NotDisabled(last.pre) = {} => last.val = 0
        /\ last.val > 0 =>
              /\ NotDisabled(last.pre) # {}
              /\ \A i \in NotDisabled(last.pre) : last.at < last.pre[i].rateLimitedUntil
              /\ keys = last.pre
              /\ LockoutPeriod(keys, last.at + last.val) = 0
              /\ \A t \in last.at .. (last.at + last.val - 1) : LockoutPeriod(keys, t) > 0

\* getLockoutPeriod prescribed a wait while two enabled keys were locked
\* until different times.
C21_Witness ==
    /\ AskedLockout
    /\ last.val > 0
    /\ \E i, j \in NotDisabled(last.pre) :
          last.pre[i].rateLimitedUntil < last.pre[j].rateLimitedUntil

\* getLockoutPeriod returned 0 because no key was enabled.
C21_WitnessNoKey ==
    /\ AskedLockout
    /\ NotDisabled(last.pre) = {}
    /\ Len(last.pre) > 0

\* The first choice of the completion event that was transformed.
FirstChoice == streamLast.input.parsed.v.choices.v[1].v

\* C22: the transformer emits a chunk exactly when the data of the event
\* parses as JSON whose choices is an array with a first element carrying a
\* non-empty text; the chunk copies id, created, model, the index and the
\* finish_reason of the first choice and has its text as delta.content; a
\* [DONE] event and an event with an empty text emit nothing.
C22_EmitsIffText ==
    Transformed =>
        LET result == streamLast.result
            input == streamLast.input
        IN  /\ result.hasEvent <=> Recognised(input)
            /\ result.hasEvent =>
                  /\ emitted # <<>>
                  /\ emitted[Len(emitted)] = result.event
                  /\ result.event.id = input.parsed.v.id
                  /\ result.event.created = input.parsed.v.created
                  /\ result.event.model = input.parsed.v.model
                  /\ Len(result.event.choices) = 1
                  /\ result.event.choices[1].index = FirstChoice.index
                  /\ result.event.choices[1].finish_reason = FirstChoice.finish_reason
                  /\ result.event.choices[1].delta.content = FirstChoice.text
            /\ input.data = "[DONE]" => ~result.hasEvent
            /\ input.name = "empty text" => ~result.hasEvent
            /\ ~result.hasEvent => Len(emitted) < Len(received)

\* A chunk was emitted for a text, and the final event of the completion,
\* with an empty text and a finish_reason, was then transformed.
C22_Witness ==
    /\ Len(received) = 2
    /\ received[1] = "last text"
    /\ Len(emitted) = 1
    /\ emitted[1].choices[1].delta.content = JsonString(" there")
    /\ Transformed
    /\ streamLast.input.name = "empty text"

TypeOK ==
    /\ now \in Nat
    /\ \A i \in 1..Len(keys) : keys[i].hash \in Hashes

====
